---- MODULE Spec2Model ----
(***************************************************************************)
(* A model of the session layer of gitlab-mcp:                             *)
(*   - InMemoryEventStore          (src/src/inMemoryEventStore.ts 8-119)   *)
(*   - DynamicConfigSchema and                                             *)
(*     DynamicGitLabConfigManager  (src/src/inMemoryEventStore.ts 120-298) *)
(*   - SessionAwareGitLabClient and                                        *)
(*     SessionClientManager        (src/unnamed/part_000)                  *)
(*                                                                         *)
(* Strings are sequences of one-character strings, so that the event id    *)
(* is really built by concatenation and really taken apart by split("_").  *)
(* A JavaScript Map is a sequence of entries in insertion order with       *)
(* unique keys: Map.set on a present key replaces the value in place.      *)
(* The clock (Date.now(), new Date()) is the variable now; it never goes    *)
(* back.  A handler that reads the clock twice may read a later value the   *)
(* second time: the clock moves on while the handler runs.                  *)
(* localeCompare is called without a locale and so compares in the default  *)
(* locale of the process, the variable locale, which is set when the        *)
(* process starts and stays.                                                *)
(* A client keeps a reference to the session record it was built from, not *)
(* a copy: the model keeps the record's value in the client and the flag    *)
(* aliased, which says that the registry's map still holds that very        *)
(* object, so that what the registry writes into the object shows in the    *)
(* client.                                                                  *)
(***************************************************************************)
EXTENDS Integers, Sequences, FiniteSets, TLC

\* ------------------------------------------------------------------ bounds

\* The calls of the registry start at the clock values 0..MaxTime, those of
\* the event log at 0..MaxLogTime.
MaxTime == 3
MaxLogTime == 1
\* Between two reads of the clock in one call the clock moves on by at most
\* MaxJump.
MaxJump == 1
\* At most MaxEvents records are stored in the event log.
MaxEvents == 3
\* At most MaxInterleaved calls change the log while one replay is suspended.
MaxInterleaved == 1
\* sessionTimeout of the registry under test, in clock units.
TimeoutUnits == 1
\* The configured maxSessions are SmallMax (empty registry at start) and
\* BigMax (a registry that already holds BigMax - 1 sessions).
SmallMax == 1
BigMax == 10
\* At most MaxClients SessionAwareGitLabClient instances are constructed.
MaxClients == 2

\* ----------------------------------------------------------------- strings

Sep == "_"
EmptyStr == <<>>

\* The default locales a process may be started in (LC_ALL, LANG), by the
\* order they give the characters of event ids: that of most locales, and
\* that of the Azerbaijani alphabet, where q comes before p.
Locales == { "en-US", "az-AZ" }

\* The characters that occur in event ids, in the order localeCompare gives
\* them in the locale loc: punctuation before digits before letters, and the
\* letters in the order of the locale's alphabet.
CharRank(loc, c) ==
  CASE c = "_" -> 0
    [] c = "0" -> 1 [] c = "1" -> 2 [] c = "2" -> 3 [] c = "3" -> 4
    [] c = "4" -> 5 [] c = "5" -> 6 [] c = "6" -> 7 [] c = "7" -> 8
    [] c = "8" -> 9 [] c = "9" -> 10
    [] c = "a" -> 11 [] c = "b" -> 12
    [] c = "p" -> IF loc = "az-AZ" THEN 14 ELSE 13
    [] c = "q" -> IF loc = "az-AZ" THEN 13 ELSE 14

\* String.prototype.localeCompare on these characters, in the locale loc:
\* -1, 0 or 1.
RECURSIVE localeCompare(_, _, _)
localeCompare(loc, a, b) ==
  IF a = <<>> /\ b = <<>> THEN 0
  ELSE IF a = <<>> THEN -1
  ELSE IF b = <<>> THEN 1
  ELSE IF CharRank(loc, Head(a)) < CharRank(loc, Head(b)) THEN -1
  ELSE IF CharRank(loc, Head(a)) > CharRank(loc, Head(b)) THEN 1
  ELSE localeCompare(loc, Tail(a), Tail(b))

DigitChar(d) ==
  CASE d = 0 -> "0" [] d = 1 -> "1" [] d = 2 -> "2" [] d = 3 -> "3"
    [] d = 4 -> "4" [] d = 5 -> "5" [] d = 6 -> "6" [] d = 7 -> "7"
    [] d = 8 -> "8" [] d = 9 -> "9"

\* The decimal digits of a natural number, as template literals print it.
RECURSIVE ToDigits(_)
ToDigits(n) ==
  IF n < 10 THEN <<DigitChar(n)>>
  ELSE Append(ToDigits(n \div 10), DigitChar(n % 10))

\* ------------------------------------------------------- event log: inputs

\* Stream ids the transport appends to; one of them holds the separator.
StreamIds == { <<"a">>, <<"b">>, <<"a", "_", "b">> }
Messages == { "m1", "m2" }
\* What Math.random().toString(36).substring(2, 10) may yield.
RandomSuffixes == { <<"p">>, <<"q">> }

\* ------------------------------------------------------ event log: helpers

generateEventId(streamId, t, rnd) ==
  streamId \o <<Sep>> \o ToDigits(t) \o <<Sep>> \o rnd

\* eventId.split("_")[0]: the characters before the first separator.
RECURSIVE FirstPart(_)
FirstPart(s) ==
  IF s = <<>> \/ Head(s) = Sep THEN <<>>
  ELSE <<Head(s)>> \o FirstPart(Tail(s))

getStreamIdFromEventId(eventId) == FirstPart(eventId)

\* Map.has / Map.set on a sequence of entries keyed by eventId.
HasEvent(evs, eventId) == \E i \in 1..Len(evs) : evs[i].eventId = eventId

MapSetEvent(evs, entry) ==
  IF HasEvent(evs, entry.eventId)
  THEN [i \in 1..Len(evs) |->
          IF evs[i].eventId = entry.eventId THEN entry ELSE evs[i]]
  ELSE Append(evs, entry)

\* Insert an entry into a sorted sequence, after the entries that do not
\* compare greater (Array.prototype.sort is stable).
RECURSIVE InsertSorted(_, _, _)
InsertSorted(loc, sorted, e) ==
  IF sorted = <<>> THEN <<e>>
  ELSE IF localeCompare(loc, Head(sorted).eventId, e.eventId) <= 0
       THEN <<Head(sorted)>> \o InsertSorted(loc, Tail(sorted), e)
       ELSE <<e>> \o sorted

\* [...events.entries()].sort((a, b) => a[0].localeCompare(b[0])), in a
\* process whose default locale is loc.
RECURSIVE SortEvents(_, _)
SortEvents(loc, evs) ==
  IF evs = <<>> THEN <<>>
  ELSE InsertSorted(loc, SortEvents(loc, SubSeq(evs, 1, Len(evs) - 1)),
                    evs[Len(evs)])

\* The loop of replayEventsAfter over sortedEvents: the entries it passes to
\* send, in order.  found is foundLastEvent.
RECURSIVE ReplayLoop(_, _, _, _)
ReplayLoop(sorted, streamId, lastEventId, found) ==
  IF sorted = <<>> THEN <<>>
  ELSE LET e == Head(sorted) IN
    IF e.streamId # streamId
      THEN ReplayLoop(Tail(sorted), streamId, lastEventId, found)
    ELSE IF e.eventId = lastEventId
      THEN ReplayLoop(Tail(sorted), streamId, lastEventId, TRUE)
    ELSE IF found
      THEN <<e>> \o ReplayLoop(Tail(sorted), streamId, lastEventId, found)
    ELSE ReplayLoop(Tail(sorted), streamId, lastEventId, found)

\* A guard that forgets to look the id up.
ReplayRejectsEmptyOnly(evs, lastEventId) == lastEventId = EmptyStr

\* The guard of replayEventsAfter: an empty or unknown lastEventId.
ReplayRejects(evs, lastEventId) ==
  lastEventId = EmptyStr \/ ~HasEvent(evs, lastEventId)

\* A loop that catches the rejection and goes on with the next event.
AfterSendRejectsGoesOn(r) ==
  IF r.queue = <<>> THEN [r EXCEPT !.pc = "done", !.result = r.streamId]
  ELSE [r EXCEPT !.sent = Append(r.sent, Head(r.queue)), !.queue = Tail(r.queue)]

\* await send(...) throws inside the for loop of replayEventsAfter: nothing
\* catches it, the loop is left and the call's promise rejects.
AfterSendRejects(r) == [r EXCEPT !.pc = "failed", !.queue = <<>>]

\* A loop that iterates this.events itself: after each send it goes on with
\* the next event that the map holds then for the stream and that it has not
\* come by yet.
AfterSendResolvesLive(r, evs) ==
  LET rest == SelectSeq(evs,
                LAMBDA e : /\ e.streamId = r.streamId
                           /\ e.eventId # r.lastEventId
                           /\ \A k \in 1..Len(r.sent) : r.sent[k].eventId # e.eventId
                           /\ \/ ~HasEvent(r.atCall, e.eventId)
                              \/ \E k \in 1..Len(r.queue) :
                                   r.queue[k].eventId = e.eventId)
  IN IF rest = <<>> THEN [r EXCEPT !.pc = "done", !.result = r.streamId, !.queue = <<>>]
     ELSE [r EXCEPT !.sent = Append(r.sent, Head(rest)), !.queue = Tail(rest)]

\* await send(...) resolves inside the for loop of replayEventsAfter: the
\* loop goes on over sortedEvents, the array built when the call started; it
\* does not read this.events (evs) again.
AfterSendResolves(r, evs) ==
  IF r.queue = <<>> THEN [r EXCEPT !.pc = "done", !.result = r.streamId]
  ELSE [r EXCEPT !.sent = Append(r.sent, Head(r.queue)), !.queue = Tail(r.queue)]

\* this.events.size
getEventCount(evs) == Len(evs)

\* Array.from(this.events.values()).filter(e => e.streamId === streamId).length
getStreamEventCount(evs, streamId) ==
  Len(SelectSeq(evs, LAMBDA e : e.streamId = streamId))

\* ------------------------------------------------ configuration validation

\* A key the query parameters do not hold.
Absent == "<absent>"
\* A value that is not a string.
NotString == "<not a string>"
GoodUrl == "https://gitlab.example/api/v4"
\* The strings z.string().url() accepts, among those the callers pass.
WellFormedUrls == { GoodUrl }
Toggles == { "true", "false" }
ToggleFields == << "read_only", "use_wiki", "use_milestone", "use_pipeline" >>
\* What the callers pass for a toggle.
ToggleInputs == { Absent, "true", "false", "yes" }

RawInput(url, token, project, ro, wiki, ms, pipe) ==
  [api_url |-> url, access_token |-> token, project_id |-> project,
   read_only |-> ro, use_wiki |-> wiki, use_milestone |-> ms, use_pipeline |-> pipe]

\* The query parameters the callers pass: two valid ones, two invalid ones.
RawInputs ==
  { RawInput(GoodUrl, "tok", Absent, Absent, Absent, Absent, Absent),
    RawInput(GoodUrl, "tok2", "p1", "true", "false", Absent, "true"),
    RawInput(Absent, "tok", Absent, Absent, Absent, Absent, Absent),
    RawInput("gitlab", "", "p1", "yes", Absent, Absent, "false") }

\* z.enum(["true", "false"]).optional().default("false")
ToggleDefault(v) == IF v = Absent THEN "false" ELSE v

\* Every value the callers may pass for each key: the input is untyped
\* (Record<string, any>), NotString is a value that is no string, such as
\* the array a repeated query parameter gives.
AllRawInputs ==
  { RawInput(url, token, project, ro, wiki, ms, pipe) :
      url \in { Absent, GoodUrl, "gitlab" },
      token \in { Absent, "", "tok", NotString },
      project \in { Absent, "p1", NotString },
      ro \in ToggleInputs, wiki \in ToggleInputs,
      ms \in ToggleInputs, pipe \in ToggleInputs }

\* A parse that stops at the first field it rejects.
SchemaIssuesFirstOnly(raw) ==
  IF raw.api_url = Absent \/ raw.api_url \notin WellFormedUrls
    THEN << "api_url" >>
  ELSE IF raw.access_token \in { Absent, NotString, "" }
    THEN << "access_token" >>
  ELSE IF raw.project_id = NotString
    THEN << "project_id" >>
  ELSE SubSeq(SelectSeq(ToggleFields,
                        LAMBDA f : raw[f] # Absent /\ raw[f] \notin Toggles), 1, 1)

\* The fields of raw that DynamicConfigSchema rejects, in schema order: the
\* paths of the issues that createSessionConfig joins into its message.
SchemaIssues(raw) ==
  (IF raw.api_url = Absent \/ raw.api_url \notin WellFormedUrls
     THEN << "api_url" >> ELSE << >>)
  \o (IF raw.access_token \in { Absent, NotString, "" }
        THEN << "access_token" >> ELSE << >>)
  \o (IF raw.project_id = NotString THEN << "project_id" >> ELSE << >>)
  \o SelectSeq(ToggleFields,
               LAMBDA f : raw[f] # Absent /\ raw[f] \notin Toggles)

\* DynamicConfigSchema.parse(raw) when it does not throw.
SchemaOutput(raw) ==
  [api_url |-> raw.api_url, access_token |-> raw.access_token,
   project_id |-> raw.project_id,
   read_only |-> ToggleDefault(raw.read_only),
   use_wiki |-> ToggleDefault(raw.use_wiki),
   use_milestone |-> ToggleDefault(raw.use_milestone),
   use_pipeline |-> ToggleDefault(raw.use_pipeline)]

SchemaAccepts(raw) == SchemaIssues(raw) = << >>

\* ------------------------------------------------------- registry: helpers

\* The session ids the callers pass to the registry.
SessionIds == { "s1", "s2", "s3" }
\* The session ids of the sessions a filled registry starts with.
FillerIds == << "s3", "f1", "f2", "f3", "f4", "f5", "f6", "f7", "f8", "f9" >>

HasSession(ss, sessionId) == \E i \in 1..Len(ss) : ss[i].sessionId = sessionId

\* Map.get on a present key.
GetSession(ss, sessionId) ==
  ss[CHOOSE i \in 1..Len(ss) : ss[i].sessionId = sessionId]

\* Map.set: a present key keeps its place and takes the new value.
MapSetSession(ss, rec) ==
  IF HasSession(ss, rec.sessionId)
  THEN [i \in 1..Len(ss) |->
          IF ss[i].sessionId = rec.sessionId THEN rec ELSE ss[i]]
  ELSE Append(ss, rec)

\* Map.delete
MapDeleteSession(ss, sessionId) ==
  SelectSeq(ss, LAMBDA r : r.sessionId # sessionId)

\* The record createSessionConfig builds: createdAt and lastUsed are two
\* new Date(), two reads of the clock.
NewSession(sessionId, config, createdAt, lastUsed) ==
  [sessionId |-> sessionId, config |-> config,
   createdAt |-> createdAt, lastUsed |-> lastUsed]

\* An expiry test that is off by one.
IsExpiredAtTimeout(session, t, timeout) == t - session.lastUsed >= timeout

\* Date.now() - session.lastUsed.getTime() > this.sessionTimeout
IsExpired(session, t, timeout) == t - session.lastUsed > timeout

\* A refresh that restarts the record.
TouchRestarts(session, t) == [session EXCEPT !.lastUsed = t, !.createdAt = t]

\* session.lastUsed = new Date()
Touch(session, t) == [session EXCEPT !.lastUsed = t]

\* Math.floor(this.maxSessions * 0.1)
EvictDivisor == 10
EvictionCount(max) == max \div EvictDivisor

\* The comparator of cleanupOldestSessions: a.lastUsed - b.lastUsed.
CompareLastUsed(a, b) == a.lastUsed - b.lastUsed

\* Array.from(entries).sort(([, a], [, b]) => a.lastUsed - b.lastUsed): the
\* sort is stable, so the entries that come before entry i of the map are
\* those that compare less and those that compare equal and were set earlier.
BeforeInSort(ss, i) ==
  { j \in 1..Len(ss) :
      \/ CompareLastUsed(ss[j], ss[i]) < 0
      \/ CompareLastUsed(ss[j], ss[i]) = 0 /\ j < i }

\* The index in the map of the entry at place k of the sorted array.
AtRank(ss, k) ==
  CHOOSE i \in 1..Len(ss) : Cardinality(BeforeInSort(ss, i)) = k - 1

SortByLastUsed(ss) == [k \in 1..Len(ss) |-> ss[AtRank(ss, k)]]

Min(a, b) == IF a < b THEN a ELSE b

\* The session ids cleanupOldestSessions(count) deletes:
\* sorted.slice(0, count).
OldestSessions(ss, count) ==
  [k \in 1..Min(count, Len(ss)) |-> ss[AtRank(ss, k)].sessionId]

SeqRange(q) == { q[i] : i \in 1..Len(q) }

cleanupOldestSessions(ss, count) ==
  SelectSeq(ss, LAMBDA r : r.sessionId \notin SeqRange(OldestSessions(ss, count)))

\* The sessions.size >= maxSessions check of createSessionConfig and what it
\* leaves of the map before the insert.
AfterCapacityCheck(ss, max) ==
  IF Len(ss) >= max THEN cleanupOldestSessions(ss, EvictionCount(max)) ELSE ss

getActiveSessionCount(ss) == Len(ss)

\* Milliseconds in a minute: the constructor multiplies the timeout it is
\* given by it, getStats divides by it.
MsPerMinute == 60000

\* Statistics that report no more sessions than the maximum.
getStatsCapped(ss, max, timeout) ==
  [activeSessions |-> Min(Len(ss), max), maxSessions |-> max,
   sessionTimeoutMinutes |-> <<timeout, MsPerMinute>>]

\* getStats(); the quotient sessionTimeout / (60 * 1000) is given as
\* numerator and denominator.
getStats(ss, max, timeout) ==
  [activeSessions |-> Len(ss), maxSessions |-> max,
   sessionTimeoutMinutes |-> <<timeout, MsPerMinute>>]

\* A create that sets the new record first and then deletes the sessions
\* the capacity check has chosen.
CreateResultSetsFirst(ss, kept, sessionId, raw, createdAt, lastUsed) ==
  IF ~SchemaAccepts(raw) THEN ss
  ELSE SelectSeq(MapSetSession(ss, NewSession(sessionId, SchemaOutput(raw),
                                              createdAt, lastUsed)),
                 LAMBDA r : r.sessionId \in { k.sessionId : k \in SeqRange(kept) }
                            \/ ~HasSession(ss, r.sessionId))

\* A create that lets the capacity check act before it validates.
CreateResultEvictsFirst(ss, kept, sessionId, raw, createdAt, lastUsed) ==
  IF ~SchemaAccepts(raw) THEN kept
  ELSE MapSetSession(kept, NewSession(sessionId, SchemaOutput(raw),
                                      createdAt, lastUsed))

\* The map createSessionConfig leaves of the map ss, where kept is what the
\* capacity check leaves of ss: ss itself when parse throws, else kept with
\* the new record set; createdAt and lastUsed are what the clock gives at
\* the two reads.
CreateResult(ss, kept, sessionId, raw, createdAt, lastUsed) ==
  IF ~SchemaAccepts(raw) THEN ss
  ELSE MapSetSession(kept, NewSession(sessionId, SchemaOutput(raw),
                                      createdAt, lastUsed))

\* A sweep that stops after the first expired session.
SweepResultFirstOnly(ss, t, timeout) ==
  IF \E i \in 1..Len(ss) : IsExpired(ss[i], t, timeout)
  THEN LET f == CHOOSE i \in 1..Len(ss) :
                  /\ IsExpired(ss[i], t, timeout)
                  /\ \A j \in 1..(i - 1) : ~IsExpired(ss[j], t, timeout)
       IN SubSeq(ss, 1, f - 1) \o SubSeq(ss, f + 1, Len(ss))
  ELSE ss

\* The map cleanupExpiredSessions leaves.
SweepResult(ss, t, timeout) ==
  SelectSeq(ss, LAMBDA r : ~IsExpired(r, t, timeout))

\* ----------------------------------------------------- client pool: helpers

\* The operation names and the requestProjectId arguments the callers pass;
\* Absent is a parameter left out (undefined).
Operations == { "create_issue", "" }
ProjectArgs == { Absent, "", "p2" }

\* Map.has / Map.get on SessionClientManager.clients, keyed by sessionId.
HasClient(cs, sessionId) == \E i \in 1..Len(cs) : cs[i].sessionId = sessionId

GetClient(cs, sessionId) ==
  cs[CHOOSE i \in 1..Len(cs) : cs[i].sessionId = sessionId]

\* new SessionAwareGitLabClient(sessionConfig), stored under the record's
\* sessionId: id tells the instances apart, sessionConfig is the value of the
\* object this.sessionConfig refers to, atCreation the value it had then.
NewClient(id, sessionConfig) ==
  [sessionId |-> sessionConfig.sessionId, id |-> id,
   sessionConfig |-> sessionConfig, atCreation |-> sessionConfig,
   aliased |-> TRUE]

\* A getClient that builds a new client when the record it is given is not
\* the one the stored client holds.
GetClientResultRebinds(cs, sessionConfig, id) ==
  IF ~HasClient(cs, sessionConfig.sessionId)
  THEN Append(cs, NewClient(id, sessionConfig))
  ELSE [i \in 1..Len(cs) |->
          IF cs[i].sessionId = sessionConfig.sessionId
             /\ cs[i].sessionConfig # sessionConfig
          THEN NewClient(id, sessionConfig) ELSE cs[i]]

\* The map getClient(sessionConfig) leaves; id is the id a new instance gets.
GetClientResult(cs, sessionConfig, id) ==
  IF HasClient(cs, sessionConfig.sessionId) THEN cs
  ELSE Append(cs, NewClient(id, sessionConfig))

\* Map.delete on the clients.
MapDeleteClient(cs, sessionId) ==
  SelectSeq(cs, LAMBDA c : c.sessionId # sessionId)

getActiveClientCount(cs) == Len(cs)

\* A registry whose deletes reach into the pool.
UnshareDrops(cs, ids) == SelectSeq(cs, LAMBDA c : c.sessionId \notin ids)

\* The registry's map lets go of the records of ids (delete, or set of a new
\* object): the clients built from them keep their objects, which the
\* registry no longer writes to.
Unshare(cs, ids) ==
  [i \in 1..Len(cs) |->
     IF cs[i].sessionId \in ids THEN [cs[i] EXCEPT !.aliased = FALSE] ELSE cs[i]]

\* session.lastUsed = new Date() in getSessionConfig writes into the object
\* that a client built from this record holds.
RefreshShared(cs, sessionId, t) ==
  [i \in 1..Len(cs) |->
     IF cs[i].sessionId = sessionId /\ cs[i].aliased
     THEN [cs[i] EXCEPT !.sessionConfig = Touch(@, t)] ELSE cs[i]]

\* A create that writes the new values into the record the map holds.
RebindOnCreateInPlace(cs, rec, evicted) ==
  [i \in 1..Len(cs) |->
     IF cs[i].sessionId = rec.sessionId /\ cs[i].aliased
       THEN [cs[i] EXCEPT !.sessionConfig = rec]
     ELSE IF cs[i].sessionId \in evicted
       THEN [cs[i] EXCEPT !.aliased = FALSE]
     ELSE cs[i]]

\* What a successful createSessionConfig means for the clients: the evicted
\* records are deleted from the map and sessions.set puts a new object
\* under the session id, so the object an older client holds is let go.
RebindOnCreate(cs, rec, evicted) == Unshare(cs, evicted \cup {rec.sessionId})

\* The methods of SessionAwareGitLabClient that read this.sessionConfig.
getConfig(c) == c.sessionConfig
\* A test of read_only for truthiness: every non-empty string passes.
isReadOnlyTruthy(c) == c.sessionConfig.config.read_only # ""
isReadOnly(c) == c.sessionConfig.config.read_only = "true"
isWikiEnabled(c) == c.sessionConfig.config.use_wiki = "true"
isMilestoneEnabled(c) == c.sessionConfig.config.use_milestone = "true"
isPipelineEnabled(c) == c.sessionConfig.config.use_pipeline = "true"

\* JavaScript's a || b on strings and undefined: a unless a is falsy.
Falsy(v) == v = Absent \/ v = ""
OrElse(a, b) == IF Falsy(a) THEN b ELSE a

\* An argument that only counts when the session has no default.
getEffectiveProjectIdDefaultFirst(c, requestProjectId) ==
  OrElse(OrElse(c.sessionConfig.config.project_id, requestProjectId), "")

\* requestProjectId || this.sessionConfig.config.project_id || ""
getEffectiveProjectId(c, requestProjectId) ==
  OrElse(OrElse(requestProjectId, c.sessionConfig.config.project_id), "")

\* The message of the Error validateWriteOperation throws, in its parts.
WriteDenied(operation, sessionId) ==
  << "Write operation '", operation,
     "' is not allowed in read-only mode for session ", sessionId >>

\* What validateWriteOperation(operation) does: throws or returns.
validateWriteOperationOutcome(c, operation) ==
  IF isReadOnly(c)
  THEN [outcome |-> "error",
        message |-> WriteDenied(operation, c.sessionConfig.sessionId)]
  ELSE [outcome |-> "ok", message |-> << >>]

\* ------------------------------------------------------------------- state

VARIABLES
  locale,         \* the default locale of the process
  now,            \* Date.now()
  events,         \* InMemoryEventStore.events, in insertion order
  replay,         \* the replayEventsAfter call in flight, or the last one
  sessions,       \* DynamicGitLabConfigManager.sessions, in insertion order
  maxSessions,    \* DynamicGitLabConfigManager.maxSessions
  sessionTimeout, \* DynamicGitLabConfigManager.sessionTimeout
  clients,        \* SessionClientManager.clients, in insertion order
  clientsMade,    \* the SessionAwareGitLabClient instances constructed so far
  last            \* the last call made and what it returned

vars == <<locale, now, events, replay, sessions, maxSessions, sessionTimeout,
          clients, clientsMade, last>>
logVars == <<events, replay>>
regVars == <<sessions, maxSessions, sessionTimeout>>
poolVars == <<clients, clientsMade>>

\* Every event id generateEventId can produce within the bounds.
AllEventIds ==
  { generateEventId(s, t, r) : s \in StreamIds, t \in 0..MaxLogTime,
                               r \in RandomSuffixes }

NoReplay ==
  [pc |-> "idle", lastEventId |-> EmptyStr, atCall |-> <<>>,
   queue |-> <<>>, sent |-> <<>>, streamId |-> EmptyStr, result |-> EmptyStr,
   interleaved |-> 0]

NoCall == [op |-> "none"]

\* replay describes the call in flight, or the call that has just returned:
\* the next call on the log drops the record of a call that has returned.
\* A call that changes the log while a replay is suspended is counted.
Forget(r) ==
  IF r.pc = "sending" THEN [r EXCEPT !.interleaved = r.interleaved + 1]
  ELSE NoReplay

MayChangeLog == replay.pc = "sending" => replay.interleaved < MaxInterleaved

\* A registry that holds BigMax - 1 sessions, all created at time 0 with the
\* default configuration: the state after BigMax - 1 creates.
DefaultConfig ==
  SchemaOutput(RawInput(GoodUrl, "tok", Absent, Absent, Absent, Absent, Absent))

FilledRegistry ==
  [i \in 1..(BigMax - 1) |-> NewSession(FillerIds[i], DefaultConfig, 0, 0)]

\* new InMemoryEventStore(),
\* new DynamicGitLabConfigManager(maxSessions, sessionTimeoutMinutes) and
\* new SessionClientManager()
Init ==
  /\ locale \in Locales
  /\ now = 0
  /\ events = <<>>
  /\ replay = NoReplay
  /\ \/ maxSessions = SmallMax /\ sessions = <<>>
     \/ maxSessions = BigMax /\ sessions = FilledRegistry
  /\ sessionTimeout = TimeoutUnits
  /\ clients = <<>>
  /\ clientsMade = 0
  /\ last = NoCall

\* ------------------------------------------------------ event log: actions

\* storeEvent(streamId, message); rnd is what Math.random() contributes.
storeEvent(streamId, message, rnd) ==
  LET eventId == generateEventId(streamId, now, rnd) IN
  /\ Len(events) < MaxEvents
  /\ MayChangeLog
  /\ events' = MapSetEvent(events,
                 [eventId |-> eventId, streamId |-> streamId, message |-> message])
  /\ last' = [op |-> "storeEvent", streamId |-> streamId, message |-> message,
              eventId |-> eventId, fresh |-> ~HasEvent(events, eventId)]
  /\ replay' = Forget(replay)
  /\ UNCHANGED <<locale, now, regVars, poolVars>>

\* replayEventsAfter(lastEventId, {send}) up to its first await: the guards,
\* the sorted snapshot, and the first call of send if there is one.
replayEventsAfter(lastEventId) ==
  /\ replay.pc \in {"idle", "done", "failed"}
  /\ LET streamId == getStreamIdFromEventId(lastEventId)
         call == [NoReplay EXCEPT !.lastEventId = lastEventId, !.atCall = events]
     IN
     IF ReplayRejects(events, lastEventId) \/ streamId = EmptyStr
     THEN replay' = [call EXCEPT !.pc = "done", !.result = EmptyStr]
     ELSE LET toSend == ReplayLoop(SortEvents(locale, events), streamId, lastEventId, FALSE) IN
          IF toSend = <<>>
          THEN replay' = [call EXCEPT !.pc = "done", !.streamId = streamId,
                                      !.result = streamId]
          ELSE replay' = [call EXCEPT !.pc = "sending", !.streamId = streamId,
                                      !.sent = <<Head(toSend)>>,
                                      !.queue = Tail(toSend)]
  /\ last' = [op |-> "replayEventsAfter", lastEventId |-> lastEventId]
  /\ UNCHANGED <<locale, now, events, regVars, poolVars>>

\* The promise of the send in flight resolves: the loop goes on to the next
\* send, or the call returns the stream id.
replaySendResolves ==
  /\ replay.pc = "sending"
  /\ replay' = AfterSendResolves(replay, events)
  /\ last' = [op |-> "sendResolved"]
  /\ UNCHANGED <<locale, now, events, regVars, poolVars>>

\* The promise of the send in flight rejects: the await throws and the
\* rejection leaves replayEventsAfter.
replaySendRejects ==
  /\ replay.pc = "sending"
  /\ replay' = AfterSendRejects(replay)
  /\ last' = [op |-> "sendRejected"]
  /\ UNCHANGED <<locale, now, events, regVars, poolVars>>

\* clearStream(streamId)
clearStream(streamId) ==
  /\ MayChangeLog
  /\ events' = SelectSeq(events,
                 LAMBDA e : getStreamIdFromEventId(e.eventId) # streamId)
  /\ last' = [op |-> "clearStream", streamId |-> streamId,
              cleared |-> Len(events) - Len(events')]
  /\ replay' = Forget(replay)
  /\ UNCHANGED <<locale, now, regVars, poolVars>>

\* A millisecond passes.
Tick(bound) ==
  /\ now < bound
  /\ now' = now + 1
  /\ last' = [op |-> "tick"]
  /\ UNCHANGED <<locale, logVars, regVars, poolVars>>

\* -------------------------------------------------------- registry: actions

\* The calls that write a timestamp stop while an idle timeout still fits
\* into the clock's range.
CanStamp == now + sessionTimeout < MaxTime

\* What a later read of the clock in the same call may give: the value of
\* the read before it, or a later one.
LaterReads == now..(now + MaxJump)

\* The last value of the clock: a record stamped by a call that CanStamp
\* has its timeout passed by then.
ClockEnd == MaxTime + MaxJump

\* createSessionConfig(sessionId, queryParams).  When parse throws, the call
\* reads no clock; else createdAt is the clock at line 175 (now) and lastUsed
\* the clock at line 176 (now'), which may have moved on.
createSessionConfig(sessionId, raw) ==
  LET kept == AfterCapacityCheck(sessions, maxSessions) IN
  /\ CanStamp
  /\ now' \in IF ~SchemaAccepts(raw) THEN {now} ELSE LaterReads
  /\ sessions' = CreateResult(sessions, kept, sessionId, raw, now, now')
  /\ last' =
       IF ~SchemaAccepts(raw)
       THEN [op |-> "create", sessionId |-> sessionId, input |-> raw,
             outcome |-> "error", issues |-> SchemaIssues(raw)]
       ELSE [op |-> "create", sessionId |-> sessionId, input |-> raw,
             outcome |-> "ok",
             returned |-> NewSession(sessionId, SchemaOutput(raw), now, now'),
             previous |-> IF HasSession(sessions, sessionId)
                          THEN <<GetSession(sessions, sessionId)>> ELSE <<>>,
             evicted |-> { r.sessionId : r \in SeqRange(sessions) }
                           \ { r.sessionId : r \in SeqRange(kept) }]
  /\ clients' = IF ~SchemaAccepts(raw) THEN clients
                ELSE RebindOnCreate(clients, last'.returned, last'.evicted)
  /\ UNCHANGED <<locale, logVars, maxSessions, sessionTimeout, clientsMade>>

\* getSessionConfig(sessionId).  The expiry test reads the clock at line 213
\* (now); a record that passes is stamped with the clock at line 220 (now'),
\* which may have moved on.
getSessionConfig(sessionId) ==
  /\ IF ~HasSession(sessions, sessionId)
     THEN /\ now' = now
          /\ sessions' = sessions
          /\ clients' = clients
          /\ last' = [op |-> "get", sessionId |-> sessionId, outcome |-> "absent"]
     ELSE LET session == GetSession(sessions, sessionId) IN
          IF IsExpired(session, now, sessionTimeout)
          THEN /\ now' = now
               /\ sessions' = MapDeleteSession(sessions, sessionId)
               /\ clients' = Unshare(clients, {sessionId})
               /\ last' = [op |-> "get", sessionId |-> sessionId, outcome |-> "expired"]
          ELSE /\ CanStamp
               /\ now' \in LaterReads
               /\ sessions' = MapSetSession(sessions, Touch(session, now'))
               /\ clients' = RefreshShared(clients, sessionId, now')
               /\ last' = [op |-> "get", sessionId |-> sessionId, outcome |-> "ok",
                           returned |-> Touch(session, now')]
  /\ UNCHANGED <<locale, logVars, maxSessions, sessionTimeout, clientsMade>>

\* removeSessionConfig(sessionId)
removeSessionConfig(sessionId) ==
  /\ sessions' = MapDeleteSession(sessions, sessionId)
  /\ last' = [op |-> "remove", sessionId |-> sessionId,
              outcome |-> IF HasSession(sessions, sessionId) THEN "true" ELSE "false"]
  /\ clients' = Unshare(clients, {sessionId})
  /\ UNCHANGED <<locale, now, logVars, maxSessions, sessionTimeout, clientsMade>>

\* cleanupExpiredSessions(), run by the constructor's setInterval
cleanupExpiredSessions ==
  /\ sessions' = SweepResult(sessions, now, sessionTimeout)
  /\ last' = [op |-> "sweep", removed |-> Len(sessions) - Len(sessions')]
  /\ clients' = Unshare(clients, { r.sessionId : r \in SeqRange(sessions) }
                                   \ { r.sessionId : r \in SeqRange(sessions') })
  /\ UNCHANGED <<locale, now, logVars, maxSessions, sessionTimeout, clientsMade>>

\* ----------------------------------------------------- client pool: actions

\* getClient(sessionConfig), called with the record the registry holds for
\* sessionId (what createSessionConfig or getSessionConfig has just returned).
getClient(sessionId) ==
  /\ HasSession(sessions, sessionId)
  /\ HasClient(clients, sessionId) \/ clientsMade < MaxClients
  /\ LET sessionConfig == GetSession(sessions, sessionId)
         made == ~HasClient(clients, sessionId)
     IN
     /\ clients' = GetClientResult(clients, sessionConfig, clientsMade + 1)
     /\ clientsMade' = IF Len(clients') > Len(clients)
                          \/ GetClient(clients', sessionId).id = clientsMade + 1
                       THEN clientsMade + 1 ELSE clientsMade
     /\ last' = [op |-> "getClient", sessionId |-> sessionId,
                 given |-> sessionConfig, made |-> made,
                 returned |-> GetClient(clients', sessionId)]
  /\ UNCHANGED <<locale, now, logVars, regVars>>

\* removeClient(sessionId)
removeClient(sessionId) ==
  /\ clients' = MapDeleteClient(clients, sessionId)
  /\ last' = [op |-> "removeClient", sessionId |-> sessionId,
              outcome |-> IF HasClient(clients, sessionId) THEN "true" ELSE "false"]
  /\ UNCHANGED <<locale, now, logVars, regVars, clientsMade>>

\* clearAll()
clearAll ==
  /\ clients' = <<>>
  /\ last' = [op |-> "clearAll", cleared |-> Len(clients)]
  /\ UNCHANGED <<locale, now, logVars, regVars, clientsMade>>

\* validateWriteOperation(operation) on the client the pool holds for
\* sessionId.
validateWriteOperation(sessionId, operation) ==
  /\ HasClient(clients, sessionId)
  /\ LET c == GetClient(clients, sessionId)
         r == validateWriteOperationOutcome(c, operation)
     IN last' = [op |-> "validateWriteOperation", sessionId |-> sessionId,
                 operation |-> operation, outcome |-> r.outcome,
                 message |-> r.message]
  /\ UNCHANGED <<locale, now, logVars, regVars, poolVars>>

\* getEffectiveProjectId(requestProjectId) on the client the pool holds for
\* sessionId.
effectiveProjectId(sessionId, requestProjectId) ==
  /\ HasClient(clients, sessionId)
  /\ last' = [op |-> "getEffectiveProjectId", sessionId |-> sessionId,
              requestProjectId |-> requestProjectId,
              returned |-> getEffectiveProjectId(GetClient(clients, sessionId),
                                                 requestProjectId)]
  /\ UNCHANGED <<locale, now, logVars, regVars, poolVars>>

\* ------------------------------------------------- diagnostic accessors

\* getActiveSessionCount()
readSessionCount ==
  /\ last' = [op |-> "getActiveSessionCount",
              returned |-> getActiveSessionCount(sessions)]
  /\ UNCHANGED <<locale, now, logVars, regVars, poolVars>>

\* getStats()
readStats ==
  /\ last' = [op |-> "getStats",
              returned |-> getStats(sessions, maxSessions, sessionTimeout)]
  /\ UNCHANGED <<locale, now, logVars, regVars, poolVars>>

\* getActiveClientCount()
readClientCount ==
  /\ last' = [op |-> "getActiveClientCount",
              returned |-> getActiveClientCount(clients)]
  /\ UNCHANGED <<locale, now, logVars, regVars, poolVars>>

\* getEventCount()
readEventCount ==
  /\ last' = [op |-> "getEventCount", returned |-> getEventCount(events)]
  /\ UNCHANGED <<locale, now, logVars, regVars, poolVars>>

\* getStreamEventCount(streamId)
readStreamEventCount(streamId) ==
  /\ last' = [op |-> "getStreamEventCount", streamId |-> streamId,
              returned |-> getStreamEventCount(events, streamId)]
  /\ UNCHANGED <<locale, now, logVars, regVars, poolVars>>

RegNext ==
  \/ \E sid \in SessionIds, raw \in RawInputs : createSessionConfig(sid, raw)
  \/ \E sid \in SessionIds : getSessionConfig(sid)
  \/ \E sid \in SessionIds : removeSessionConfig(sid)
  \/ cleanupExpiredSessions
  \/ Tick(ClockEnd)

\* No call of the registry, the pool or a client compares event ids: their
\* servers are started in one locale.
RegInit == Init /\ locale = "en-US"

RegSpec == RegInit /\ [][RegNext]_vars

LogNext ==
  \/ \E s \in StreamIds, m \in Messages, r \in RandomSuffixes : storeEvent(s, m, r)
  \/ \E id \in AllEventIds \cup {EmptyStr} : replayEventsAfter(id)
  \/ replaySendResolves
  \/ replaySendRejects
  \/ \E s \in StreamIds : clearStream(s)
  \/ Tick(MaxLogTime)

\* The event log of a server whose registry holds at most SmallMax sessions.
LogInit == Init /\ maxSessions = SmallMax

LogSpec == LogInit /\ [][LogNext]_vars

\* The registry and the client pool of a server.  The registry is called for
\* PoolSessionIds with the valid inputs, the pool for the session "s3", which
\* a filled registry holds as its oldest record.
PoolSessionIds == { "s1", "s3" }
PoolClientIds == { "s3" }
PoolInputs == { raw \in RawInputs : SchemaAccepts(raw) }

PoolNext ==
  \/ \E sid \in PoolSessionIds, raw \in PoolInputs : createSessionConfig(sid, raw)
  \/ \E sid \in PoolSessionIds : getSessionConfig(sid)
  \/ \E sid \in PoolSessionIds : removeSessionConfig(sid)
  \/ cleanupExpiredSessions
  \/ Tick(ClockEnd)
  \/ \E sid \in PoolClientIds : getClient(sid)
  \/ \E sid \in PoolClientIds : removeClient(sid)
  \/ clearAll

PoolInit == RegInit

PoolSpec == PoolInit /\ [][PoolNext]_vars

\* The clients of one session and the calls made on them: the session is
\* created with the valid inputs and with an empty default project.
ClientInputs ==
  PoolInputs \cup { RawInput(GoodUrl, "tok", "", "false", Absent, Absent, Absent) }

ClientNext ==
  \/ \E sid \in PoolClientIds, raw \in ClientInputs : createSessionConfig(sid, raw)
  \/ \E sid \in PoolClientIds : getSessionConfig(sid)
  \/ Tick(ClockEnd)
  \/ \E sid \in PoolClientIds : getClient(sid)
  \/ \E sid \in PoolClientIds : removeClient(sid)
  \/ \E sid \in PoolClientIds, operation \in Operations :
       validateWriteOperation(sid, operation)
  \/ \E sid \in PoolClientIds, arg \in ProjectArgs : effectiveProjectId(sid, arg)

ClientInit == RegInit /\ maxSessions = SmallMax

ClientSpec == ClientInit /\ [][ClientNext]_vars

\* The validation of a registry's first create, for every input, and the
\* lookups of the session it creates.
ValNext ==
  \/ \E raw \in AllRawInputs : last.op = "none" /\ createSessionConfig("s1", raw)
  \/ getSessionConfig("s1")
  \/ Tick(ClockEnd)

ValInit == RegInit /\ maxSessions = SmallMax

ValSpec == ValInit /\ [][ValNext]_vars

\* The diagnostic accessors of the three components, called between the
\* calls that fill and age a registry, a pool and a log.
DiagStreamIds == { <<"a">>, <<"a", "_", "b">> }
DiagInput == RawInput(GoodUrl, "tok", Absent, Absent, Absent, Absent, Absent)

DiagNext ==
  \/ \E sid \in PoolSessionIds : createSessionConfig(sid, DiagInput)
  \/ getSessionConfig("s3")
  \/ Tick(ClockEnd)
  \/ getClient("s3")
  \/ \E s \in DiagStreamIds : storeEvent(s, "m1", <<"p">>)
  \/ readSessionCount
  \/ readStats
  \/ readClientCount
  \/ readEventCount
  \/ \E s \in DiagStreamIds : readStreamEventCount(s)

DiagInit == RegInit /\ maxSessions = SmallMax

DiagSpec == DiagInit /\ [][DiagNext]_vars

Next == LogNext \/ RegNext \/ PoolNext \/ ClientNext \/ ValNext \/ DiagNext

Spec == Init /\ [][Next]_vars

\* The registry of SmallMax sessions, where the sweep fires again and again
\* (setInterval) and time goes on.
LiveInit == RegInit /\ maxSessions = SmallMax

LiveSpec ==
  /\ LiveInit
  /\ [][RegNext]_vars
  /\ WF_vars(Tick(ClockEnd))
  /\ WF_vars(cleanupExpiredSessions)

\* ------------------------------------------------------ event log: claims

\* The entry stored under eventId.
EventOf(evs, eventId) ==
  evs[CHOOSE i \in 1..Len(evs) : evs[i].eventId = eventId]

PositionOf(evs, eventId) ==
  CHOOSE i \in 1..Len(evs) : evs[i].eventId = eventId

\* The entries of e's stream that were appended after e, in append order:
\* the Map keeps its entries in the order they were first set.
AppendedAfter(evs, eventId) ==
  LET p == PositionOf(evs, eventId)
      rest == SubSeq(evs, p + 1, Len(evs))
  IN SelectSeq(rest, LAMBDA e : e.streamId = EventOf(evs, eventId).streamId)

ReplayOfStored ==
  /\ replay.pc = "done"
  /\ HasEvent(replay.atCall, replay.lastEventId)

\* C1: a replay after a stored event e that has returned has passed to send
\* exactly the events of e's stream appended after e, once each, in the order
\* they were appended, whatever the clock did between the appends.
C1_ReplayInAppendOrder ==
  ReplayOfStored => replay.sent = AppendedAfter(replay.atCall, replay.lastEventId)

\* C2: replayEventsAfter with an empty id, or an id that is not stored,
\* returns the empty value at once, calls send no time, fails in no way and
\* leaves the log as it was.
C2_UnknownIdReplaysNothing ==
  (/\ replay.pc # "idle"
   /\ \/ replay.lastEventId = EmptyStr
      \/ ~HasEvent(replay.atCall, replay.lastEventId))
    => /\ replay.pc = "done"
       /\ replay.result = EmptyStr
       /\ replay.sent = <<>>
       /\ replay.queue = <<>>
       /\ events = replay.atCall

\* C2's case: a replay of an id that is not stored has returned, on a log
\* that holds events of the stream the id names.
C2_Witness ==
  /\ replay.pc = "done"
  /\ replay.lastEventId # EmptyStr
  /\ ~HasEvent(replay.atCall, replay.lastEventId)
  /\ \E i \in 1..Len(events) :
       events[i].streamId = getStreamIdFromEventId(replay.lastEventId)
  /\ replay.result = EmptyStr

\* C3: a replay after a stored event e that has returned has returned the
\* stream id under which e was appended.
C3_ReplayReturnsStreamId ==
  ReplayOfStored =>
    replay.result = EventOf(replay.atCall, replay.lastEventId).streamId

\* The events of the streams other than streamId, in the order of the map.
EventsOfOthers(evs, streamId) == SelectSeq(evs, LAMBDA e : e.streamId # streamId)

\* C12: clearStream(S) deletes every event that was appended to S, so that
\* the count of S is 0 afterwards, and leaves the events of every other
\* stream as they were; a call other than clearStream removes and changes no
\* stored event.
C12_ClearStreamExact ==
  /\ [][last'.op = "clearStream" =>
          /\ getStreamEventCount(events', last'.streamId) = 0
          /\ EventsOfOthers(events', last'.streamId)
               = EventsOfOthers(events, last'.streamId)]_vars
  /\ [][last'.op # "clearStream" =>
          /\ Len(events') >= Len(events)
          /\ \A i \in 1..Len(events) : events'[i] = events[i]]_vars

\* The events a replay sets out to send: what its loop would pass to send if
\* no send failed.
ToReplay(r) ==
  ReplayLoop(SortEvents(locale, r.atCall), r.streamId, r.lastEventId, FALSE)

\* C13: when a send fails, replayEventsAfter fails; it calls send for no
\* later event, the events it has passed to send stay passed, and no step of
\* the replay changes the log; after the failure send is called again only
\* by a new call of replayEventsAfter.
C13_SendFailurePropagates ==
  /\ [][last'.op = "sendRejected" =>
          /\ replay'.pc = "failed"
          /\ replay'.sent = replay.sent
          /\ replay'.queue = <<>>]_vars
  /\ [][last'.op \in {"replayEventsAfter", "sendResolved", "sendRejected"}
          => events' = events]_vars
  /\ [][replay.pc = "failed" =>
          /\ replay'.pc = "sending" => last'.op = "replayEventsAfter"
          /\ replay'.pc = "failed" => replay'.sent = replay.sent]_vars

\* C13's case: a replay of two events has failed in the first send.
C13_Witness ==
  /\ replay.pc = "failed"
  /\ Len(replay.sent) = 1
  /\ Len(ToReplay(replay)) = 2
  /\ last.op = "sendRejected"

\* C17: the id an append returns is the id of no event stored before, so
\* that the append makes the count one larger and leaves every event stored
\* before as it was, also in a stream appended to in the same millisecond.
C17_AppendIsFresh ==
  [][last'.op = "storeEvent" =>
       /\ ~HasEvent(events, last'.eventId)
       /\ getEventCount(events') = getEventCount(events) + 1
       /\ \A i \in 1..Len(events) : events'[i] = events[i]]_vars

\* C21: a replay sends the events of the log as it was when the call
\* started: what it has sent and what it has still to send are together the
\* events it set out to send, and an append or a clearStream made while the
\* replay waits for a send, on its stream or on another, changes neither.
C21_ReplaySendsSnapshot ==
  /\ []((replay.pc \in {"sending", "done"}
          /\ HasEvent(replay.atCall, replay.lastEventId)
          /\ replay.streamId # EmptyStr)
         => replay.sent \o replay.queue = ToReplay(replay))
  /\ [][(replay.pc = "sending" /\ last'.op \in {"storeEvent", "clearStream"})
          => /\ replay'.pc = "sending"
             /\ replay'.sent = replay.sent
             /\ replay'.queue = replay.queue
             /\ replay'.atCall = replay.atCall]_vars

\* C21's case: a replay has returned; while it waited for a send, an event
\* was appended to its stream with an id after the id it replayed from, and
\* the replay has not sent it.
C21_Witness ==
  /\ replay.pc = "done"
  /\ replay.interleaved > 0
  /\ replay.sent # <<>>
  /\ \E i \in 1..Len(events) :
       /\ events[i].streamId = replay.streamId
       /\ ~HasEvent(replay.atCall, events[i].eventId)
       /\ localeCompare(locale, events[i].eventId,
                       replay.sent[Len(replay.sent)].eventId) > 0
       /\ \A k \in 1..Len(replay.sent) : replay.sent[k].eventId # events[i].eventId

\* -------------------------------------------------------- registry: claims

\* Every action writes last, so a step that changes the state and leaves
\* last'.op = "create" is a step of createSessionConfig, and so on.

IdleAge(session) == now - session.lastUsed

\* ceil(0.1 * max)
CeilTenth(max) == (max + 9) \div 10

RecordsOf(ss) == SeqRange(ss)

\* C4: a valid create on a registry that holds at least max records removes
\* exactly ceil(0.1 * max) records before the insert, and no removed record
\* was used later than a record that stays.
C4_EvictsCeilTenthOldest ==
  [][(last'.op = "create" /\ last'.outcome = "ok" /\ Len(sessions) >= maxSessions)
       => /\ Cardinality(last'.evicted) = CeilTenth(maxSessions)
          /\ \A r \in RecordsOf(sessions), k \in RecordsOf(sessions) :
               (r.sessionId \in last'.evicted /\ k.sessionId \notin last'.evicted)
                 => r.lastUsed <= k.lastUsed]_vars

\* C5: the registry never holds more than max + 1 records.
C5_CountBounded == getActiveSessionCount(sessions) <= maxSessions + 1

\* C6: get deletes a record whose idle age exceeds the timeout and returns
\* absent; it returns a record whose idle age is at most the timeout; and a
\* session that is absent stays absent until a create of it succeeds.
C6_GetNeverReturnsExpired ==
  /\ [][last'.op = "get" =>
          LET sid == last'.sessionId IN
          IF ~HasSession(sessions, sid)
          THEN last'.outcome = "absent" /\ sessions' = sessions
          ELSE IF IdleAge(GetSession(sessions, sid)) > sessionTimeout
          THEN /\ last'.outcome = "expired"
               /\ ~HasSession(sessions', sid)
               /\ getActiveSessionCount(sessions') = getActiveSessionCount(sessions) - 1
          ELSE /\ last'.outcome = "ok"
               /\ HasSession(sessions', sid)
               /\ last'.returned = GetSession(sessions', sid)
               /\ last'.returned.sessionId = sid]_vars
  /\ [][\A sid \in SessionIds :
          (~HasSession(sessions, sid) /\ HasSession(sessions', sid))
            => /\ last'.op = "create"
               /\ last'.sessionId = sid
               /\ last'.outcome = "ok"]_vars

\* C6's case: a get has found its record idle for longer than the timeout.
C6_Witness ==
  /\ last.op = "get"
  /\ last.outcome = "expired"
  /\ ~HasSession(sessions, last.sessionId)

\* One run of the sweep removes the records idle for longer than the timeout
\* and keeps every other record.
SweepIsExact ==
  [][last'.op = "sweep" =>
       /\ \A r \in RecordsOf(sessions) :
            IF IdleAge(r) > sessionTimeout
            THEN ~HasSession(sessions', r.sessionId)
            ELSE r \in RecordsOf(sessions')
       /\ RecordsOf(sessions') \subseteq RecordsOf(sessions)]_vars

\* The call that has just been made looked sid up or created it.
JustTouched(sid) == last.op \in {"get", "create"} /\ last.sessionId = sid

\* C7: each run of the sweep deletes the records idle for longer than the
\* timeout and no other; and while the sweep keeps firing and time goes on, a
\* session in the registry is in the end absent from it, unless it is looked
\* up or created again.
C7_SweepRemovesIdleSessions ==
  /\ SweepIsExact
  /\ \A sid \in SessionIds :
       (HasSession(sessions, sid) /\ ~JustTouched(sid))
         ~> (~HasSession(sessions, sid) \/ JustTouched(sid))

\* C7's case: a sweep has removed a session that was created and not looked
\* up since.
C7_Witness ==
  /\ last.op = "sweep"
  /\ last.removed > 0
  /\ getActiveSessionCount(sessions) > 0

\* C8: lastUsed is never before createdAt; a get that returns a record sets
\* its lastUsed to the time of the call (the clock when the call returns,
\* not before the clock when it started), which is not before the old
\* value, and changes nothing else in the registry.
C8_LastUsedMonotone ==
  /\ [](\A r \in RecordsOf(sessions) : r.lastUsed >= r.createdAt)
  /\ [][(last'.op = "get" /\ last'.outcome = "ok") =>
          LET sid == last'.sessionId
              old == GetSession(sessions, sid)
          IN /\ last'.returned.lastUsed = now'
             /\ last'.returned.lastUsed >= now
             /\ last'.returned.lastUsed >= old.lastUsed
             /\ last'.returned.createdAt = old.createdAt
             /\ last'.returned.config = old.config
             /\ Len(sessions') = Len(sessions)
             /\ \A i \in 1..Len(sessions) :
                  sessions'[i] = IF sessions[i].sessionId = sid
                                 THEN last'.returned ELSE sessions[i]]_vars

\* C8's case: a get has returned a record later than it was created.
C8_Witness ==
  /\ last.op = "get"
  /\ last.outcome = "ok"
  /\ last.returned.lastUsed > last.returned.createdAt
  /\ getActiveSessionCount(sessions) > 1

\* C9: a create whose input fails validation raises an error and leaves the
\* registry exactly as it was.
C9_InvalidCreateChangesNothing ==
  [][(last'.op = "create" /\ ~SchemaAccepts(last'.input))
       => /\ last'.outcome = "error"
          /\ sessions' = sessions]_vars

\* C9's case: an invalid create on a registry at capacity, where the capacity
\* check would have evicted.
C9_Witness ==
  /\ last.op = "create"
  /\ last.outcome = "error"
  /\ HasSession(sessions, last.sessionId)
  /\ getActiveSessionCount(sessions) >= maxSessions
  /\ EvictionCount(maxSessions) > 0

\* C10: after a successful create the registry holds exactly one record for
\* the session id: the validated configuration of this call, with createdAt
\* and lastUsed one and the same time, a time of the call (not before the
\* clock when the call started, not after the clock when it returned);
\* nothing of an older record is kept.
C10_CreateReplaces ==
  [][(last'.op = "create" /\ last'.outcome = "ok") =>
       LET sid == last'.sessionId
           rec == GetSession(sessions', sid)
       IN
       /\ Cardinality({i \in 1..Len(sessions') : sessions'[i].sessionId = sid}) = 1
       /\ rec.sessionId = sid
       /\ rec.config = SchemaOutput(last'.input)
       /\ rec.createdAt = rec.lastUsed
       /\ now <= rec.createdAt /\ rec.createdAt <= now'
       /\ last'.returned = rec]_vars

\* C22: after a successful create the registry holds the record of the
\* session id, also when the capacity check of this create has evicted the
\* older record of the same session id; a get of the session id that comes
\* next, before the timeout has passed, returns the record.
C22_CreatedIsPresent ==
  /\ [][(last'.op = "create" /\ last'.outcome = "ok") =>
          /\ HasSession(sessions', last'.sessionId)
          /\ GetSession(sessions', last'.sessionId) = last'.returned
          /\ ~IsExpired(last'.returned, now', sessionTimeout')]_vars
  /\ [][(/\ last.op = "create" /\ last.outcome = "ok"
          /\ last'.op = "get" /\ last'.sessionId = last.sessionId)
          => /\ last'.outcome = "ok"
             /\ last'.returned.config = last.returned.config
             /\ last'.returned.createdAt = last.returned.createdAt]_vars

\* C22's case: a create at capacity has evicted the older record of its own
\* session id and the registry holds the new one.
C22_Witness ==
  /\ last.op = "create"
  /\ last.outcome = "ok"
  /\ last.sessionId \in last.evicted
  /\ HasSession(sessions, last.sessionId)
  /\ GetSession(sessions, last.sessionId) = last.returned

\* ------------------------------------------------------ validation: claims

\* The fields the claim lets an input fail on, and project_id.
ClaimedFields == { "api_url", "access_token" } \cup SeqRange(ToggleFields)
SchemaFields == ClaimedFields \cup { "project_id" }

IsString(v) == v \notin { Absent, NotString }

\* What is asked of each field of an input.
FieldOk(raw, f) ==
  CASE f = "api_url" -> IsString(raw.api_url) /\ raw.api_url \in WellFormedUrls
    [] f = "access_token" -> IsString(raw.access_token) /\ raw.access_token # ""
    [] f = "project_id" -> raw.project_id = Absent \/ IsString(raw.project_id)
    [] OTHER -> raw[f] = Absent \/ raw[f] \in { "true", "false" }

\* Validation decides by the fields in fields, fills in the toggles and
\* names every field it rejects.
ValidationDecidesBy(fields) ==
  last'.op = "create" =>
    LET raw == last'.input
        violated == { f \in fields : ~FieldOk(raw, f) }
    IN /\ last'.outcome = "ok" <=> violated = {}
       /\ last'.outcome = "ok" =>
            /\ last'.returned.config.api_url = raw.api_url
            /\ last'.returned.config.access_token = raw.access_token
            /\ \A f \in SeqRange(ToggleFields) :
                 last'.returned.config[f] =
                   IF raw[f] = Absent THEN "false" ELSE raw[f]
       /\ last'.outcome = "error" => SeqRange(last'.issues) = violated

\* Every record of the registry has a URL, a credential and four toggles.
RecordsAreValid ==
  \A r \in SeqRange(sessions) :
    /\ IsString(r.config.api_url) /\ r.config.api_url # ""
    /\ IsString(r.config.access_token) /\ r.config.access_token # ""
    /\ \A f \in SeqRange(ToggleFields) : r.config[f] \in { "true", "false" }

\* C14 as claimed: an input is accepted exactly when api_url is a
\* well-formed URL, access_token a non-empty string and each toggle missing
\* or "true"/"false"; an accepted input gives a record with "false" for each
\* missing toggle; a rejected input gives a failure that names every
\* violated field; every record of the registry has a non-empty URL and
\* credential and four toggles in {"true", "false"}.
C14_ValidationAsClaimed ==
  /\ [][ValidationDecidesBy(ClaimedFields)]_vars
  /\ []RecordsAreValid

\* C14 as amended: the same, where an input is accepted exactly when,
\* besides, project_id is missing or a string, and project_id is among the
\* fields a failure names.
C14_ValidationExact ==
  /\ [][ValidationDecidesBy(SchemaFields)]_vars
  /\ []RecordsAreValid

\* C14's case: a create has failed on an input that violates three fields or
\* more, project_id among them, and holds a toggle that is in order.
C14_Witness ==
  /\ last.op = "create"
  /\ last.outcome = "error"
  /\ Len(last.issues) >= 3
  /\ "project_id" \in SeqRange(last.issues)
  /\ last.input.use_wiki = "true"

\* ----------------------------------------------------- client pool: claims

ClientIdsOf(cs, sid) == { cs[i].id : i \in { j \in 1..Len(cs) : cs[j].sessionId = sid } }

\* C11: the pool holds at most one client per session id; a getClient for a
\* session id that has a client returns that very instance and leaves the
\* pool as it is, whatever record it is given; and the instance stored for a
\* session id goes away or changes only in removeClient(sessionId) or
\* clearAll().
C11_OneClientPerSession ==
  /\ [](\A i, j \in 1..Len(clients) :
          clients[i].sessionId = clients[j].sessionId => i = j)
  /\ [][(last'.op = "getClient" /\ HasClient(clients, last'.sessionId))
          => /\ last'.returned.id = GetClient(clients, last'.sessionId).id
             /\ clients' = clients]_vars
  /\ [][\A sid \in SessionIds :
          (HasClient(clients, sid) /\ ClientIdsOf(clients', sid) # ClientIdsOf(clients, sid))
            => \/ last'.op = "removeClient" /\ last'.sessionId = sid
               \/ last'.op = "clearAll"]_vars

\* C11's case: getClient has been given a record that was created again with
\* another configuration, for a session id that had a client.
C11_Witness ==
  /\ last.op = "getClient"
  /\ ~last.made
  /\ last.given.config # last.returned.atCreation.config
  /\ last.given.createdAt > last.returned.atCreation.createdAt
  /\ HasClient(clients, last.sessionId)
  /\ GetClient(clients, last.sessionId) = last.returned

\* The client that the call recorded in last' was made on.
CalledClient == GetClient(clients, last'.sessionId)

\* C15: validateWriteOperation(operation) throws an error that names the
\* operation and the session exactly when the configuration the client is
\* bound to has read_only = "true", and returns otherwise; either way the
\* client, the pool and the registry stay as they were.
C15_WriteGate ==
  [][last'.op = "validateWriteOperation" =>
       /\ IF CalledClient.atCreation.config.read_only = "true"
          THEN /\ last'.outcome = "error"
               /\ last'.message[2] = last'.operation
               /\ last'.message[Len(last'.message)] = CalledClient.atCreation.sessionId
               /\ last'.message[Len(last'.message)] = last'.sessionId
          ELSE last'.outcome = "ok"
       /\ clients' = clients
       /\ sessions' = sessions]_vars

\* C15's case: a write is refused on a client that was built read-only,
\* while the registry's record of the session is no longer read-only.
C15_Witness ==
  /\ last.op = "validateWriteOperation"
  /\ last.outcome = "error"
  /\ last.operation = "create_issue"
  /\ HasSession(sessions, last.sessionId)
  /\ GetSession(sessions, last.sessionId).config.read_only = "false"

\* The default project of the configuration the called client is bound to.
ConfiguredDefault == CalledClient.sessionConfig.config.project_id

\* C16 as claimed: getEffectiveProjectId(arg) returns arg whenever an
\* argument is given, else the configured default when there is one, else
\* the empty string.
C16_ProjectIdAsClaimed ==
  [][last'.op = "getEffectiveProjectId" =>
       last'.returned =
         IF last'.requestProjectId # Absent THEN last'.requestProjectId
         ELSE IF ConfiguredDefault # Absent THEN ConfiguredDefault
         ELSE ""]_vars

\* C16 as amended: getEffectiveProjectId(arg) returns arg whenever an
\* argument is given and is not the empty string, else the configured
\* default when there is one, else the empty string.
C16_ProjectIdNonEmptyFirst ==
  [][last'.op = "getEffectiveProjectId" =>
       last'.returned =
         IF last'.requestProjectId \notin { Absent, "" } THEN last'.requestProjectId
         ELSE IF ConfiguredDefault # Absent THEN ConfiguredDefault
         ELSE ""]_vars

\* C16's case: the call was given the empty string on a client with a
\* default project, and has returned the default.
C16_Witness ==
  /\ last.op = "getEffectiveProjectId"
  /\ last.requestProjectId = ""
  /\ last.returned = "p1"
  /\ HasClient(clients, last.sessionId)
  /\ GetClient(clients, last.sessionId).sessionConfig.config.project_id = "p1"

\* What a client shows of the record it is bound to: getConfig, the
\* read-only and feature-gate queries and the default project id.
Exposed(c) ==
  [config |-> getConfig(c), readOnly |-> isReadOnly(c),
   wiki |-> isWikiEnabled(c), milestone |-> isMilestoneEnabled(c),
   pipeline |-> isPipelineEnabled(c),
   projectId |-> getEffectiveProjectId(c, Absent)]

\* The same of a client that holds the values of its creation time.
ExposedAtCreation(c) == Exposed([c EXCEPT !.sessionConfig = c.atCreation])

\* C18 as claimed: whatever the registry does later, a client shows what it
\* showed when it was created.
C18_ClientFrozenAsClaimed ==
  \A i \in 1..Len(clients) : Exposed(clients[i]) = ExposedAtCreation(clients[i])

\* C18 as amended: a client shows the session id, the createdAt and the
\* configuration of its creation time, and so the same answers to the
\* read-only, feature-gate and default-project queries; the lastUsed of
\* getConfig() is never before its value at creation time, and it is the
\* registry's lastUsed as long as the registry holds the record the client
\* was built from.
C18_ConfigFrozen ==
  \A i \in 1..Len(clients) :
    LET c == clients[i] IN
    /\ getConfig(c).sessionId = c.atCreation.sessionId
    /\ getConfig(c).createdAt = c.atCreation.createdAt
    /\ getConfig(c).config = c.atCreation.config
    /\ [Exposed(c) EXCEPT !.config = c.atCreation] = ExposedAtCreation(c)
    /\ getConfig(c).lastUsed >= c.atCreation.lastUsed
    /\ c.aliased =>
         /\ HasSession(sessions, c.sessionId)
         /\ getConfig(c) = GetSession(sessions, c.sessionId)

\* C18's case: the session of a client was looked up later and then created
\* again with another configuration; the client shows the later lastUsed and
\* the configuration of its creation time.
C18_Witness ==
  \E i \in 1..Len(clients) :
    LET c == clients[i] IN
    /\ getConfig(c).lastUsed > c.atCreation.lastUsed
    /\ HasSession(sessions, c.sessionId)
    /\ GetSession(sessions, c.sessionId).config # getConfig(c).config
    /\ last.op = "create"
    /\ last.sessionId = c.sessionId

\* The session ids and the instances of the pool, in the order of the map.
PoolEntries(cs) == [i \in 1..Len(cs) |-> <<cs[i].sessionId, cs[i].id>>]

\* C19: no call of the registry (create with its capacity eviction, get with
\* its expiry, remove, the sweep) adds, removes or replaces a client of the
\* pool, so a client stays in the pool when its session leaves the registry;
\* a client leaves the pool only in removeClient(sessionId) or clearAll().
C19_RegistryLeavesPool ==
  /\ [][last'.op \in {"create", "get", "remove", "sweep"}
          => PoolEntries(clients') = PoolEntries(clients)]_vars
  /\ [][\A sid \in SessionIds :
          (HasClient(clients, sid) /\ ~HasClient(clients', sid))
            => /\ last'.op \in {"removeClient", "clearAll"}
               /\ last'.op = "removeClient" => last'.sessionId = sid]_vars

\* C19's case: a create at capacity has evicted a session that has a client;
\* the pool holds the client of a session the registry no longer holds.
C19_Witness ==
  /\ last.op = "create"
  /\ last.outcome = "ok"
  /\ \E sid \in last.evicted :
       HasClient(clients, sid) /\ ~HasSession(sessions, sid)

\* ------------------------------------------------------ accessors: claims

Accessors ==
  { "getActiveSessionCount", "getStats", "getActiveClientCount",
    "getEventCount", "getStreamEventCount" }

\* C20: a call of a diagnostic accessor changes neither the registry (no
\* record added or removed, no lastUsed refreshed, expired records still
\* there), nor the pool, nor the event log; the count of the registry is the
\* number of its records, expired or not, and the activeSessions of
\* getStats() is the count.
C20_AccessorsReadOnly ==
  /\ [][last'.op \in Accessors =>
          /\ sessions' = sessions
          /\ clients' = clients
          /\ events' = events
          /\ replay' = replay]_vars
  /\ [][last'.op = "getStats" =>
          last'.returned.activeSessions
            = getActiveSessionCount(sessions')]_vars
  /\ [][last'.op = "getActiveSessionCount" =>
          last'.returned = Cardinality({ r.sessionId : r \in SeqRange(sessions') })]_vars

\* C20's case: getStats has been called on a registry that holds more
\* sessions than its maximum, one of them with its timeout passed, with a
\* client in the pool and events in the log.
C20_Witness ==
  /\ last.op = "getStats"
  /\ last.returned.activeSessions > last.returned.maxSessions
  /\ \E r \in SeqRange(sessions) : IsExpired(r, now, sessionTimeout)
  /\ getActiveClientCount(clients) = 1
  /\ getEventCount(events) > 1

====
